---- MODULE Spec2Model ----
(***************************************************************************)
(* Model of web/src/services/ai/openrouterService.ts: the OpenRouter chat  *)
(* client (sendChatRequest, generateSuggestions) and its streaming         *)
(* response decoder (sendStreamingChatRequest).                            *)
(*                                                                         *)
(* Text is a sequence of one-character strings; the response body is a     *)
(* sequence of bytes, an ASCII byte written as its character and a byte of *)
(* a multi-byte UTF-8 character written as its two hex digits.             *)
(***************************************************************************)
EXTENDS Integers, Sequences, FiniteSets, TLC

\* Largest number of lines in a streamed response body.
MaxLines == 3

\* Largest number of lines in a streamed body that has blank lines, comments
\* or frames without content.
MaxMixedLines == 2

\* Largest number of lines in the body of each of two concurrent calls.
MaxParLines == 1

\* Largest number of lines in a non-streaming completion.
MaxReplyLines == 6

----------------------------------------------------------------------------
(* Strings                                                                 *)

NL == "\n"

WhiteSpace == {" ", "\t", "\r", NL}

\* String.prototype.indexOf(c) searched from position i (1-based); 0 is
\* JavaScript's -1.
IndexOf(s, c, i) ==
    LET hits == { j \in i..Len(s) : s[j] = c }
    IN  IF hits = {} THEN 0 ELSE CHOOSE j \in hits : \A k \in hits : j <= k

RECURSIVE TrimStart(_)
TrimStart(s) ==
    IF s # <<>> /\ Head(s) \in WhiteSpace THEN TrimStart(Tail(s)) ELSE s

RECURSIVE TrimEnd(_)
TrimEnd(s) ==
    IF s # <<>> /\ s[Len(s)] \in WhiteSpace
    THEN TrimEnd(SubSeq(s, 1, Len(s) - 1))
    ELSE s

\* String.prototype.trim
Trim(s) == TrimEnd(TrimStart(s))

\* String.prototype.startsWith
StartsWith(s, p) == Len(s) >= Len(p) /\ SubSeq(s, 1, Len(p)) = p

\* String.prototype.slice(n) for 0 <= n, as a count of dropped characters
SliceFrom(s, n) == SubSeq(s, n + 1, Len(s))

RECURSIVE Flatten(_)
\* the concatenation of a sequence of strings
Flatten(ss) == IF ss = <<>> THEN <<>> ELSE Head(ss) \o Flatten(Tail(ss))

----------------------------------------------------------------------------
(* JSON values and JSON.parse                                              *)
(* The grammar covers null, strings without escapes, arrays and objects,   *)
(* with optional spaces between tokens.                                    *)

JNull == [t |-> "null"]
JStr(s) == [t |-> "str", s |-> s]
JArr(a) == [t |-> "arr", a |-> a]
\* an object is the sequence of its <<key, value>> members
JObj(m) == [t |-> "obj", m |-> m]

\* undefined, the result of reading a property that is not there
Undefined == [t |-> "undefined"]

NoParse == [ok |-> FALSE, v |-> Undefined, n |-> 0]

RECURSIVE SkipWs(_, _)
SkipWs(s, i) ==
    IF i <= Len(s) /\ s[i] \in WhiteSpace THEN SkipWs(s, i + 1) ELSE i

RECURSIVE ParseValue(_, _)
RECURSIVE ParseElements(_, _, _)
RECURSIVE ParseMembers(_, _, _)

\* a string literal starting at the quote s[i]
ParseString(s, i) ==
    LET j == IndexOf(s, "\"", i + 1)
        body == SubSeq(s, i + 1, j - 1)
    IN  IF j = 0 \/ \E k \in 1..Len(body) : body[k] \in {"\\", NL, "\t", "\r"}
        THEN NoParse
        ELSE [ok |-> TRUE, v |-> JStr(body), n |-> j + 1]

\* the elements of an array after "[" or ",", acc the elements read so far
ParseElements(s, i, acc) ==
    LET e == ParseValue(s, SkipWs(s, i))
        j == SkipWs(s, e.n)
    IN  IF ~e.ok \/ j > Len(s) THEN NoParse
        ELSE IF s[j] = "," THEN ParseElements(s, j + 1, Append(acc, e.v))
        ELSE IF s[j] = "]"
             THEN [ok |-> TRUE, v |-> JArr(Append(acc, e.v)), n |-> j + 1]
        ELSE NoParse

\* the members of an object after "{" or ",", acc the members read so far
ParseMembers(s, i, acc) ==
    LET k0 == SkipWs(s, i)
        k == IF k0 <= Len(s) /\ s[k0] = "\"" THEN ParseString(s, k0) ELSE NoParse
        c == SkipWs(s, k.n)
        e == ParseValue(s, SkipWs(s, c + 1))
        j == SkipWs(s, e.n)
    IN  IF ~k.ok \/ c > Len(s) THEN NoParse
        ELSE IF s[c] # ":" THEN NoParse
        ELSE IF ~e.ok \/ j > Len(s) THEN NoParse
        ELSE IF s[j] = ","
             THEN ParseMembers(s, j + 1, Append(acc, <<k.v.s, e.v>>))
        ELSE IF s[j] = "}"
             THEN [ok |-> TRUE, v |-> JObj(Append(acc, <<k.v.s, e.v>>)), n |-> j + 1]
        ELSE NoParse

ParseValue(s, i) ==
    IF i > Len(s) THEN NoParse
    ELSE IF s[i] = "\"" THEN ParseString(s, i)
    ELSE IF s[i] = "n"
         THEN IF i + 3 <= Len(s) /\ SubSeq(s, i, i + 3) = <<"n", "u", "l", "l">>
              THEN [ok |-> TRUE, v |-> JNull, n |-> i + 4]
              ELSE NoParse
    ELSE IF s[i] = "["
         THEN LET j == SkipWs(s, i + 1)
              IN  IF j <= Len(s) /\ s[j] = "]"
                  THEN [ok |-> TRUE, v |-> JArr(<<>>), n |-> j + 1]
                  ELSE ParseElements(s, i + 1, <<>>)
    ELSE IF s[i] = "{"
         THEN LET j == SkipWs(s, i + 1)
              IN  IF j <= Len(s) /\ s[j] = "}"
                  THEN [ok |-> TRUE, v |-> JObj(<<>>), n |-> j + 1]
                  ELSE ParseMembers(s, i + 1, <<>>)
    ELSE NoParse

\* JSON.parse: ok is FALSE where it throws a SyntaxError
JSONParse(s) ==
    LET r == ParseValue(s, SkipWs(s, 1))
    IN  IF r.ok /\ SkipWs(s, r.n) = Len(s) + 1
        THEN [ok |-> TRUE, v |-> r.v]
        ELSE [ok |-> FALSE, v |-> Undefined]

RECURSIVE Member(_, _, _)
\* the value of the last member of m named k, from position i down
Member(m, k, i) ==
    IF i = 0 THEN Undefined
    ELSE IF m[i][1] = k THEN m[i][2]
    ELSE Member(m, k, i - 1)

\* v.k for a value v that is neither null nor undefined
Prop(v, k) == IF v.t = "obj" THEN Member(v.m, k, Len(v.m)) ELSE Undefined

\* v[0] for a value v that is neither null nor undefined
First(v) ==
    IF v.t = "arr" THEN (IF v.a = <<>> THEN Undefined ELSE v.a[1])
    ELSE IF v.t = "str" THEN (IF v.s = <<>> THEN Undefined ELSE JStr(<<v.s[1]>>))
    ELSE Prop(v, <<"0">>)

Nullish(v) == v.t \in {"null", "undefined"}

\* a test for null and undefined only: the empty string passes
TruthyNonNullish(v) == ~Nullish(v)

\* JavaScript truthiness
Truthy(v) ==
    IF v.t = "str" THEN v.s # <<>> ELSE ~Nullish(v)

RECURSIVE ToStr(_)
\* the string a value becomes under `+=`
ToStr(v) ==
    IF v.t = "str" THEN v.s
    ELSE IF v.t = "obj"
         THEN <<"[", "o", "b", "j", "e", "c", "t", " ", "O", "b", "j", "e", "c", "t", "]">>
    ELSE IF v.t = "arr"
         THEN Flatten([i \in 1..Len(v.a) |->
                  (IF i > 1 THEN <<",">> ELSE <<>>)
                  \o (IF Nullish(v.a[i]) THEN <<>> ELSE ToStr(v.a[i]))])
    ELSE IF v.t = "null" THEN <<"n", "u", "l", "l">>
    ELSE <<"u", "n", "d", "e", "f", "i", "n", "e", "d">>

----------------------------------------------------------------------------
(* TextDecoder                                                             *)

\* the lead byte of a three-byte UTF-8 sequence, and two continuation bytes
LeadBytes == {"E4"}
ContBytes == {"BD", "A0"}

\* the replacement character
Replacement == "U+FFFD"

\* the character a complete three-byte sequence encodes
Utf8Char(seq) ==
    CASE seq = <<"E4", "BD", "A0">> -> "U+4F60"
      [] seq = <<"E4", "A0", "BD">> -> "U+483D"
      [] seq = <<"E4", "BD", "BD">> -> "U+4F7D"
      [] seq = <<"E4", "A0", "A0">> -> "U+4820"

\* the number of bytes the decoder holds back after the bytes all[1..i]
Held(all, i) ==
    IF i = 0 THEN 0
    ELSE IF all[i] \in LeadBytes THEN 1
    ELSE IF all[i] \in ContBytes /\ i > 1 /\ all[i - 1] \in LeadBytes THEN 2
    ELSE 0

\* no character
NoChar == ""

\* whether the byte all[i] breaks off a sequence: a continuation byte that
\* continues nothing, or another byte while a sequence is held back; the
\* decoder emits one replacement character for it
BreaksAt(all, i) ==
    IF all[i] \in ContBytes THEN Held(all, i - 1) = 0 ELSE Held(all, i - 1) > 0

\* the character the byte all[i] completes, if any
CharAt(all, i) ==
    IF all[i] \in ContBytes
    THEN IF Held(all, i - 1) = 2
         THEN Utf8Char(<<all[i - 2], all[i - 1], all[i]>>)
         ELSE NoChar
    ELSE IF all[i] \in LeadBytes THEN NoChar ELSE all[i]

\* TextDecoder.decode(bytes) without {stream: true}: nothing is held back, a
\* sequence the bytes leave incomplete becomes a replacement character
Utf8DecodeStateless(held, bytes) ==
    LET slots == [k \in 1..(2 * Len(bytes)) |->
                    IF k % 2 = 1
                    THEN (IF BreaksAt(bytes, (k + 1) \div 2) THEN Replacement ELSE NoChar)
                    ELSE CharAt(bytes, k \div 2)]
    IN  [text |-> SelectSeq(slots, LAMBDA c : c # NoChar)
                  \o (IF Held(bytes, Len(bytes)) > 0 THEN <<Replacement>> ELSE <<>>),
         pending |-> <<>>]

\* TextDecoder.decode(bytes, {stream: true}): held is the bytes of a
\* sequence that is not complete yet; each byte emits a replacement
\* character or nothing, then a character or nothing
Utf8Decode(held, bytes) ==
    LET all == held \o bytes
        slots == [k \in 1..(2 * Len(all)) |->
                    IF k % 2 = 1
                    THEN (IF BreaksAt(all, (k + 1) \div 2) THEN Replacement ELSE NoChar)
                    ELSE CharAt(all, k \div 2)]
    IN  [text |-> SelectSeq(slots, LAMBDA c : c # NoChar),
         pending |-> SubSeq(all, Len(all) - Held(all, Len(all)) + 1, Len(all))]

----------------------------------------------------------------------------
(* Event-stream frames                                                     *)

\* 'data: '
DataPrefix == <<"d", "a", "t", "a", ":", " ">>

\* '[DONE]'
Sentinel == <<"[", "D", "O", "N", "E", "]">>

Quoted(s) == <<"\"">> \o s \o <<"\"">>

ChoicesKey == <<"c", "h", "o", "i", "c", "e", "s">>
DeltaKey == <<"d", "e", "l", "t", "a">>
ContentKey == <<"c", "o", "n", "t", "e", "n", "t">>

\* {"choices":[{"delta":{"content":"<c>"}}]}
DeltaPayload(c) ==
    <<"{">> \o Quoted(ChoicesKey) \o <<":", "[", "{">> \o Quoted(DeltaKey)
    \o <<":", "{">> \o Quoted(ContentKey) \o <<":">> \o Quoted(c)
    \o <<"}", "}", "]", "}">>

\* the two deltas of the streamed bodies: "a" and a three-byte character
DeltaA == <<"a">>
DeltaB == <<"U+4F60">>
DeltaBBytes == <<"E4", "BD", "A0">>

\* the lines a streamed body is made of, without their newline
LineA == DataPrefix \o DeltaPayload(DeltaA)
LineB == DataPrefix \o DeltaPayload(DeltaBBytes)
LineDone == DataPrefix \o Sentinel
\* a frame that is not JSON
LineBad == DataPrefix \o <<"{", "o", "o", "p", "s">>
\* {"choices":[{"delta":{}}]}: a frame without content
LineNoContent ==
    DataPrefix \o <<"{">> \o Quoted(ChoicesKey) \o <<":", "[", "{">>
    \o Quoted(DeltaKey) \o <<":", "{", "}", "}", "]", "}">>
\* a blank line between events
LineEmpty == <<>>
\* an event-stream comment, a line without the prefix
LineComment == <<":", " ", "k", "e", "e", "p">>

\* {"choices":[{"delta":{"content":""}}]}: a frame with an empty content
LineEmptyContent == DataPrefix \o DeltaPayload(<<>>)
\* {}: a frame without choices
LineNoChoices == DataPrefix \o <<"{", "}">>
\* {"choices":[{}]}: a frame whose choice has no delta
LineNoDelta ==
    DataPrefix \o <<"{">> \o Quoted(ChoicesKey) \o <<":", "[", "{", "}", "]", "}">>

\* the lines that carry no delta and are not the sentinel
OddLineKinds ==
    {LineEmpty, LineComment, LineNoContent, LineEmptyContent, LineNoChoices, LineNoDelta}

\* a delta frame, a line without delta, a delta frame
OddBetween == { <<LineA, o, LineB>> : o \in OddLineKinds }

\* the lines of the longer bodies, and the lines of the bodies of at most
\* MaxMixedLines lines
LineKinds == {LineA, LineB, LineDone, LineBad}
MixedLineKinds == LineKinds \cup {LineNoContent, LineEmpty, LineComment}

\* offsets inside a line at which the network may end a chunk: inside the
\* prefix and inside the delta's content
CutOffsets == {3, 40}

RECURSIVE Join(_)
\* the lines, each followed by a newline
Join(ls) == IF ls = <<>> THEN <<>> ELSE Head(ls) \o <<NL>> \o Join(Tail(ls))

RECURSIVE LineStarts(_, _)
\* the offset at which each line starts
LineStarts(ls, at) ==
    IF ls = <<>> THEN <<>>
    ELSE <<at>> \o LineStarts(Tail(ls), at + Len(Head(ls)) + 1)

\* the offsets at which a chunk of the body made of the lines ls may end
ChunkEnds(ls, total) ==
    LET starts == LineStarts(ls, 0)
    IN  { p \in 1..total :
            \/ p = total
            \/ \E i \in 1..Len(ls) :
                 \/ p = starts[i] + Len(ls[i]) + 1
                 \/ \E o \in CutOffsets : o <= Len(ls[i]) /\ p = starts[i] + o }

\* a body: its bytes and the offsets at which a chunk may end; the last line
\* may lack its newline
Body(ls, terminated) ==
    LET full == Join(ls)
        bytes == IF terminated \/ ls = <<>> THEN full
                 ELSE SubSeq(full, 1, Len(full) - 1)
    IN  [bytes |-> bytes, ends |-> ChunkEnds(ls, Len(bytes))]

Streams ==
    { Body(ls, tm) :
        ls \in UNION { [1..n -> LineKinds] : n \in 0..MaxLines }
               \cup UNION { [1..n -> MixedLineKinds] : n \in 0..MaxMixedLines },
        tm \in BOOLEAN }
    \cup { Body(ls, TRUE) : ls \in OddBetween }

----------------------------------------------------------------------------
(* Errors and outcomes                                                     *)

\* The literals of the source that are not ASCII stand as one symbol each.
\* '未配置 OpenRouter API 密钥'
MissingKeyMsg == <<"[API key not configured]">>
\* 'API 请求失败: '
RequestFailedMsg == <<"[API request failed]", ":", " ">>
\* '响应体不可读'
UnreadableMsg == <<"[response body not readable]">>
\* '无法生成建议，请稍后再试'
PlaceholderMsg == <<"[cannot generate suggestions, try again later]">>

Err(type, msg) == [type |-> type, msg |-> msg]
NoError == Err("none", <<>>)

\* what fetch rejects with, what response.json() rejects with, what a
\* property read of null or undefined throws, what reader.read() rejects with
TransportError == Err("TypeError", <<"[failed to fetch]">>)
SyntaxError == Err("SyntaxError", <<>>)
TypeError == Err("TypeError", <<>>)
ReadError == Err("TypeError", <<"[network error]">>)

Thrown(e) == [status |-> "thrown", result |-> Undefined, error |-> e]
Returned(v) == [status |-> "returned", result |-> v, error |-> NoError]

\* a list of strings, the result of generateSuggestions
JList(l) == [t |-> "list", l |-> l]

----------------------------------------------------------------------------
(* HTTP responses                                                          *)

ErrorKey == <<"e", "r", "r", "o", "r">>
MessageKey == <<"m", "e", "s", "s", "a", "g", "e">>
InvalidKey == <<"i", "n", "v", "a", "l", "i", "d", " ", "k", "e", "y">>

\* what response.json() settles with: a rejection or a value
Rejects == [ok |-> FALSE, v |-> Undefined]
Resolves(v) == [ok |-> TRUE, v |-> v]

\* the bodies of a non-2xx response: not JSON, {"error":{"message":"invalid
\* key"}}, {"error":{}}, {} and null
ErrorBodies ==
    { Rejects,
      Resolves(JObj(<< <<ErrorKey, JObj(<< <<MessageKey, JStr(InvalidKey)>> >>)>> >>)),
      Resolves(JObj(<< <<ErrorKey, JObj(<<>>)>> >>)),
      Resolves(JObj(<<>>)),
      Resolves(JNull) }

\* the lines of a completion
ReplyLines == {<<"x">>, <<" ", "y", "\t">>, <<>>}

RECURSIVE JoinLines(_)
\* the lines separated by newlines
JoinLines(ls) ==
    IF ls = <<>> THEN <<>>
    ELSE IF Len(ls) = 1 THEN Head(ls)
    ELSE Head(ls) \o <<NL>> \o JoinLines(Tail(ls))

\* a line of whitespace only between two lines with text
BlankBetween == << <<"x">>, <<" ", "\t">>, <<" ", "y", "\t">> >>

ReplyTexts ==
    { JoinLines(ls) : ls \in UNION { [1..n -> ReplyLines] : n \in 1..MaxReplyLines } }
    \cup { JoinLines(BlankBetween) }

Completion(choices) == Resolves(JObj(<< <<ChoicesKey, choices>> >>))
Choice(message) == JObj(<< <<MessageKey, message>> >>)

\* the bodies of a 2xx non-streaming response: not JSON, null, {}, no
\* choices, a choice without message, a message without content, a message
\* whose content is an object, and the messages with a text
ReplyBodies ==
    { Rejects, Resolves(JNull), Resolves(JObj(<<>>)),
      Completion(JArr(<<>>)),
      Completion(JArr(<<JObj(<<>>)>>)),
      Completion(JArr(<<Choice(JObj(<<>>))>>)),
      Completion(JArr(<<Choice(JObj(<< <<ContentKey, JObj(<<>>)>> >>))>>)) }
    \cup { Completion(JArr(<<Choice(JObj(<< <<ContentKey, JStr(c)>> >>))>>)) :
             c \in ReplyTexts }

EmptyBody == [bytes |-> <<>>, ends |-> {}]

Response(ok, code, statusText, json, readable, body) ==
    [ok |-> ok, status |-> code, statusText |-> statusText, json |-> json,
     readable |-> readable, body |-> body]

NoResponse == Response(FALSE, <<>>, <<>>, Rejects, FALSE, EmptyBody)

Unauthorized == <<"U", "n", "a", "u", "t", "h", "o", "r", "i", "z", "e", "d">>

\* the non-2xx responses; the status text is empty over HTTP/2
ErrorResponses ==
    { Response(FALSE, <<"4", "0", "1">>, st, j, TRUE, EmptyBody) :
        j \in ErrorBodies, st \in {Unauthorized, <<>>} }

\* the 2xx responses to a streaming request, with and without a body
StreamResponses ==
    { Response(TRUE, <<"2", "0", "0">>, <<"O", "K">>, Rejects, TRUE, b) : b \in Streams }
    \cup { Response(TRUE, <<"2", "0", "0">>, <<"O", "K">>, Rejects, FALSE, EmptyBody) }

\* the 2xx responses to a non-streaming request
ReplyResponses ==
    { Response(TRUE, <<"2", "0", "0">>, <<"O", "K">>, j, TRUE, EmptyBody) :
        j \in ReplyBodies }

\* the responses fetch may resolve with for a call of f
Responses(f) ==
    ErrorResponses
    \cup IF f = "sendStreamingChatRequest" THEN StreamResponses ELSE ReplyResponses

----------------------------------------------------------------------------
(* State                                                                   *)

VARIABLES
    apiKey,      \* API_KEY, the empty string when the environment sets none
    fn,          \* the exported function that was called
    pc,          \* the await the call is suspended at
    resp,        \* the response fetch resolved with
    reader,      \* whether response.body.getReader() returned a reader
    pos,         \* the number of bytes of the body the reader has delivered
    pending,     \* the bytes the TextDecoder holds back
    dec,         \* buffer and fullText, the arguments onChunk was called
                 \* with, and whether a [DONE] line was drained
    failOn,      \* the delta on which the caller's onChunk throws
    fetches,     \* the number of calls of fetch
    reads,       \* the number of calls of reader.read()
    cancels,     \* the number of calls of reader.cancel()
    finalDrain,  \* whether the drain after the read loop has run
    status,      \* "returned" or "thrown" once the call has settled
    result,      \* the value the call returned
    error,       \* the error the call threw
    decoded,     \* the text the decoder has appended to the buffer so far
    par          \* the calls of sendStreamingChatRequest that run concurrently

vars == <<apiKey, fn, pc, resp, reader, pos, pending, dec, failOn, fetches, reads,
          cancels, finalDrain, status, result, error, decoded, par>>

Functions == {"sendChatRequest", "generateSuggestions", "sendStreamingChatRequest"}

\* the callbacks: one that never throws, one that throws on the delta "a"
Callbacks == {Undefined, JStr(DeltaA)}

InitDec == [buffer |-> <<>>, fullText |-> <<>>, calls |-> <<>>, sawDone |-> FALSE]

Init ==
    /\ apiKey \in {<<>>, <<"k">>}
    /\ fn = "none"
    /\ pc = "idle"
    /\ resp = NoResponse
    /\ reader = FALSE
    /\ pos = 0
    /\ pending = <<>>
    /\ dec = InitDec
    /\ failOn = Undefined
    /\ fetches = 0
    /\ reads = 0
    /\ cancels = 0
    /\ finalDrain = FALSE
    /\ status = "idle"
    /\ result = Undefined
    /\ error = NoError
    /\ decoded = <<>>
    /\ par = <<>>

----------------------------------------------------------------------------
(* generateSuggestions                                                     *)

MaxSuggestions == 5

RECURSIVE Split(_)
\* String.prototype.split('\n')
Split(s) ==
    LET i == IndexOf(s, NL, 1)
    IN  IF i = 0 THEN <<s>>
        ELSE <<SubSeq(s, 1, i - 1)>> \o Split(SubSeq(s, i + 1, Len(s)))

\* lines 91-94 without the slice of line 95
SuggestionsUncut(text) ==
    LET lines == Split(text)
        trimmed == [i \in 1..Len(lines) |-> Trim(lines[i])]
    IN  SelectSeq(trimmed, LAMBDA l : Len(l) > 0)

\* lines 91-95: split, trim, drop the empty lines, keep the first five
Suggestions(text) ==
    LET lines == Split(text)
        trimmed == [i \in 1..Len(lines) |-> Trim(lines[i])]
        kept == SelectSeq(trimmed, LAMBDA l : Len(l) > 0)
    IN  SubSeq(kept, 1, IF Len(kept) < MaxSuggestions THEN Len(kept) ELSE MaxSuggestions)

\* generateSuggestions without its catch: a rejection of the request escapes
GenerateSuggestionsNoCatch(o) ==
    IF o.status = "thrown" THEN o
    ELSE IF o.result.t # "str" THEN Thrown(TypeError)
    ELSE Returned(JList(Suggestions(o.result.s)))

\* lines 84-99 applied to the outcome o of the awaited sendChatRequest: a
\* rejection, or a value that has no split method, ends in the catch
GenerateSuggestions(o) ==
    IF o.status = "thrown" \/ o.result.t # "str"
    THEN Returned(JList(<<PlaceholderMsg>>))
    ELSE Returned(JList(Suggestions(o.result.s)))

\* the outcome of the call of f whose request settled with o
Outcome(f, o) == IF f = "generateSuggestions" THEN GenerateSuggestions(o) ELSE o

Settle(f, o) ==
    /\ pc' = "done"
    /\ status' = Outcome(f, o).status
    /\ result' = Outcome(f, o).result
    /\ error' = Outcome(f, o).error

----------------------------------------------------------------------------
(* The request                                                             *)

\* fetch called without the check of the key
IssuesFetchUnchecked(key) == TRUE

\* lines 41-58 and 117-139: the key is checked, then fetch is called once
IssuesFetch(key) == key # <<>>

\* A call of one of the three functions, up to its first await.
Call(f) ==
    /\ pc = "idle"
    /\ fn' = f
    /\ failOn' \in IF f = "sendStreamingChatRequest" THEN Callbacks ELSE {Undefined}
    /\ IF IssuesFetch(apiKey)
       THEN /\ fetches' = fetches + 1
            /\ pc' = "fetch"
            /\ UNCHANGED <<status, result, error>>
       ELSE /\ fetches' = fetches
            /\ Settle(f, Thrown(Err("Error", MissingKeyMsg)))
    /\ UNCHANGED <<decoded, par, apiKey, resp, reader, pos, pending, dec, reads, cancels, finalDrain>>

\* fetch rejects: the error propagates through the catch that rethrows it.
FetchRejects ==
    /\ pc = "fetch"
    /\ Settle(fn, Thrown(TransportError))
    /\ UNCHANGED <<decoded, par, apiKey, fn, resp, reader, pos, pending, dec, failOn, fetches, reads,
                   cancels, finalDrain>>

\* a reader taken without the check of line 152
HasReaderUnchecked(r) == TRUE

\* lines 151-152: response.body?.getReader() gave a reader
HasReader(r) == r.readable

\* fetch resolves: lines 60-61 and 65, or 141-144 and 151-158.
FetchResolves ==
    /\ pc = "fetch"
    /\ \E r \in Responses(fn) :
         /\ resp' = r
         /\ reader' = (r.ok /\ fn = "sendStreamingChatRequest" /\ HasReader(r))
         /\ IF ~r.ok
            THEN pc' = "errjson" /\ UNCHANGED <<status, result, error>>
            ELSE IF fn # "sendStreamingChatRequest"
            THEN pc' = "json" /\ UNCHANGED <<status, result, error>>
            ELSE IF ~HasReader(r)
            THEN Settle(fn, Thrown(Err("Error", UnreadableMsg)))
            ELSE pc' = "read" /\ UNCHANGED <<status, result, error>>
    /\ UNCHANGED <<decoded, par, apiKey, fn, pos, pending, dec, failOn, fetches, reads,
                   cancels, finalDrain>>

\* lines 61-62: the error sendChatRequest throws for the non-2xx response r
ChatHttpError(r) ==
    IF ~r.json.ok THEN SyntaxError
    ELSE IF Nullish(r.json.v) THEN TypeError
    ELSE LET e == Prop(r.json.v, ErrorKey)
             m == IF Nullish(e) THEN Undefined ELSE Prop(e, MessageKey)
         IN  Err("Error", RequestFailedMsg \o (IF Truthy(m) THEN ToStr(m)
                                                ELSE r.statusText))

\* lines 143-148: whatever the try block throws, the rejection of json() or
\* the error built from the body, the catch throws the status line instead
StreamHttpError(r) ==
    LET inTry == ChatHttpError(r)
    IN  IF inTry.type # "none"
        THEN Err("Error", RequestFailedMsg \o r.status \o <<" ">> \o r.statusText)
        ELSE inTry

\* response.json() of a non-2xx response settles.
ErrorBodySettles ==
    /\ pc = "errjson"
    /\ Settle(fn, Thrown(IF fn = "sendStreamingChatRequest"
                         THEN StreamHttpError(resp) ELSE ChatHttpError(resp)))
    /\ UNCHANGED <<decoded, par, apiKey, fn, resp, reader, pos, pending, dec, failOn, fetches, reads,
                   cancels, finalDrain>>

\* data.choices[0].message.content || '': no optional chaining on the choice
ChatContentStrict(r) ==
    IF ~r.json.ok THEN Thrown(SyntaxError)
    ELSE IF Nullish(r.json.v) THEN Thrown(TypeError)
    ELSE LET choices == Prop(r.json.v, ChoicesKey)
         IN  IF Nullish(choices) \/ Nullish(First(choices)) THEN Thrown(TypeError)
             ELSE LET message == Prop(First(choices), MessageKey)
                  IN  IF Nullish(message) THEN Thrown(TypeError)
                      ELSE IF Truthy(Prop(message, ContentKey))
                      THEN Returned(Prop(message, ContentKey))
                      ELSE Returned(JStr(<<>>))

\* lines 65-66: data.choices[0]?.message.content || ''
ChatContent(r) ==
    IF ~r.json.ok THEN Thrown(SyntaxError)
    ELSE IF Nullish(r.json.v) THEN Thrown(TypeError)
    ELSE LET choices == Prop(r.json.v, ChoicesKey)
         IN  IF Nullish(choices) THEN Thrown(TypeError)
             ELSE IF Nullish(First(choices)) THEN Returned(JStr(<<>>))
             ELSE LET message == Prop(First(choices), MessageKey)
                  IN  IF Nullish(message) THEN Thrown(TypeError)
                      ELSE IF Truthy(Prop(message, ContentKey))
                      THEN Returned(Prop(message, ContentKey))
                      ELSE Returned(JStr(<<>>))

\* response.json() of a 2xx non-streaming response settles.
BodySettles ==
    /\ pc = "json"
    /\ Settle(fn, ChatContent(resp))
    /\ UNCHANGED <<decoded, par, apiKey, fn, resp, reader, pos, pending, dec, failOn, fetches, reads,
                   cancels, finalDrain>>

----------------------------------------------------------------------------
(* The stream decoder                                                      *)

\* line 175: parsed.choices[0]?.delta?.content; threw where reading a
\* property of null or undefined throws
DeltaContent(parsed) ==
    IF Nullish(parsed) THEN [threw |-> TRUE, v |-> Undefined]
    ELSE IF Nullish(Prop(parsed, ChoicesKey)) THEN [threw |-> TRUE, v |-> Undefined]
    ELSE LET choice == First(Prop(parsed, ChoicesKey))
             delta == IF Nullish(choice) THEN Undefined ELSE Prop(choice, DeltaKey)
         IN  [threw |-> FALSE,
              v |-> IF Nullish(delta) THEN Undefined ELSE Prop(delta, ContentKey)]

\* a catch that also throws the buffered lines away
OnSyntaxErrorDropsBuffer(d) == [d EXCEPT !.buffer = <<>>]

\* what the catch of lines 180-183 leaves of a line whose payload is not JSON
OnSyntaxError(d) == d

\* the delta appended to fullText before onChunk is called
HandleDataAppendsFirst(d, data, cb) ==
    LET parsed == JSONParse(data)
        content == DeltaContent(parsed.v)
    IN  IF ~parsed.ok THEN OnSyntaxError(d)
        ELSE IF content.threw THEN d
        ELSE IF ~Truthy(content.v) THEN d
        ELSE [d EXCEPT !.calls = Append(@, content.v),
                       !.fullText = @ \o ToStr(content.v)]

\* lines 173-183 for the payload data: the try block and its catch, with cb
\* the delta on which onChunk throws
HandleData(d, data, cb) ==
    LET parsed == JSONParse(data)
        content == DeltaContent(parsed.v)
    IN  IF ~parsed.ok THEN OnSyntaxError(d)
        ELSE IF content.threw THEN d
        ELSE IF ~Truthy(content.v) THEN d
        ELSE IF content.v = cb
             THEN [d EXCEPT !.calls = Append(@, content.v)]
             ELSE [d EXCEPT !.calls = Append(@, content.v),
                            !.fullText = @ \o ToStr(content.v)]

RECURSIVE ProcessLines(_, _)
\* lines 162-185: processLines
ProcessLines(d, cb) ==
    LET lineEnd == IndexOf(d.buffer, NL, 1)
        line == Trim(SubSeq(d.buffer, 1, lineEnd - 1))
        rest == [d EXCEPT !.buffer = SubSeq(d.buffer, lineEnd + 1, Len(d.buffer))]
    IN  IF lineEnd = 0 THEN d
        ELSE IF line = <<>> \/ ~StartsWith(line, DataPrefix) THEN ProcessLines(rest, cb)
        ELSE IF SliceFrom(line, 6) = Sentinel THEN [rest EXCEPT !.sawDone = TRUE]
        ELSE ProcessLines(HandleData(rest, SliceFrom(line, 6), cb), cb)

\* lines 196-199: the drain after the read loop
FinalDrain(d, cb) ==
    IF Trim(d.buffer) # <<>>
    THEN ProcessLines([d EXCEPT !.buffer = @ \o <<NL>>], cb)
    ELSE d

\* line 201: the finally block calls reader.cancel()
Finally(n) == n + 1

\* reader.read() resolves with the next bytes of the body: lines 188-192.
ReadChunk ==
    /\ pc = "read"
    /\ \E e \in resp.body.ends :
         /\ e > pos
         /\ LET chunk == Utf8Decode(pending, SubSeq(resp.body.bytes, pos + 1, e))
            IN  /\ pending' = chunk.pending
                /\ decoded' = decoded \o chunk.text
                /\ dec' = ProcessLines([dec EXCEPT !.buffer = @ \o chunk.text], failOn)
         /\ pos' = e
    /\ reads' = reads + 1
    /\ UNCHANGED <<par, apiKey, fn, pc, resp, reader, failOn, fetches, cancels, finalDrain,
                   status, result, error>>

\* reader.read() resolves with done: lines 189 and 195-204.
ReadDone ==
    /\ pc = "read"
    /\ pos = Len(resp.body.bytes)
    /\ reads' = reads + 1
    /\ dec' = FinalDrain(dec, failOn)
    /\ finalDrain' = TRUE
    /\ cancels' = Finally(cancels)
    /\ Settle(fn, Returned(JStr(dec'.fullText)))
    /\ UNCHANGED <<decoded, par, apiKey, fn, resp, reader, pos, pending, failOn, fetches>>

\* reader.cancel() after the loop instead of in a finally block: a rejection
\* of reader.read() skips it
ReadFailsCancelsNoFinally(n) == n

\* what a rejection of reader.read() leaves of the number of cancels
ReadFailsCancels(n) == Finally(n)

\* a catch that returns what was accumulated when reader.read() rejects
ReadFailsOutcomePartial(d) == Returned(JStr(d.fullText))

\* lines 200-209: the rejection of reader.read() leaves the try through the
\* finally block and is rethrown; fullText is not returned
ReadFailsOutcome(d) == Thrown(ReadError)

\* reader.read() rejects: the finally block runs and the error propagates.
ReadFails ==
    /\ pc = "read"
    /\ reads' = reads + 1
    /\ cancels' = ReadFailsCancels(cancels)
    /\ Settle(fn, ReadFailsOutcome(dec))
    /\ UNCHANGED <<decoded, par, apiKey, fn, resp, reader, pos, pending, dec, failOn, fetches, finalDrain>>

Next ==
    \/ \E f \in Functions : Call(f)
    \/ FetchRejects
    \/ FetchResolves
    \/ ErrorBodySettles
    \/ BodySettles
    \/ ReadChunk
    \/ ReadDone
    \/ ReadFails

Spec == Init /\ [][Next]_vars

----------------------------------------------------------------------------
(* Two concurrent calls of sendStreamingChatRequest                        *)
(* Both calls hold their reader and await reader.read(); the network cuts *)
(* each body at every offset it may cut at and interleaves the chunks of   *)
(* the two calls in any order.                                             *)

ParCalls == {1, 2}

ParLineKinds == {LineA, LineB, LineDone}

ParStreams ==
    { Body(ls, tm) : ls \in UNION { [1..n -> ParLineKinds] : n \in 0..MaxParLines },
                     tm \in BOOLEAN }

\* a call at its first reader.read()
ParStart(b) ==
    [body |-> b, pos |-> 0, pending |-> <<>>, dec |-> InitDec,
     pc |-> "read", status |-> "idle", result |-> Undefined, error |-> NoError,
     cancels |-> 0]

\* the offset at which the chunk after offset at ends
NextEnd(b, at) ==
    CHOOSE e \in b.ends : e > at /\ \A f \in b.ends : f > at => e <= f

\* a decoder, buffer and fullText declared at module level: every call uses
\* those of the first
DecoderOfShared(i) == 1

\* lines 156-158: decoder, buffer and fullText are locals of the call i
DecoderOf(i) == i

\* the decoder state the call i works on: its own callback's calls with the
\* buffer and the text of DecoderOf(i)
ParDec(i) ==
    [par[i].dec EXCEPT !.buffer = par[DecoderOf(i)].dec.buffer,
                       !.fullText = par[DecoderOf(i)].dec.fullText]

\* par after the call i has changed its record to r and left the decoder
\* state d, the TextDecoder holding back p
ParStore(i, r, d, p) ==
    LET own == [par EXCEPT ![i] = [r EXCEPT !.dec = d]]
    IN  [own EXCEPT ![DecoderOf(i)].dec.buffer = d.buffer,
                    ![DecoderOf(i)].dec.fullText = d.fullText,
                    ![DecoderOf(i)].pending = p]

InitPar ==
    /\ apiKey = <<"k">>
    /\ fn = "none"
    /\ pc = "idle"
    /\ resp = NoResponse
    /\ reader = FALSE
    /\ pos = 0
    /\ pending = <<>>
    /\ dec = InitDec
    /\ failOn = Undefined
    /\ fetches = 0
    /\ reads = 0
    /\ cancels = 0
    /\ finalDrain = FALSE
    /\ status = "idle"
    /\ result = Undefined
    /\ error = NoError
    /\ decoded = <<>>
    /\ par \in [ParCalls -> { ParStart(b) : b \in ParStreams }]

ParUnchanged ==
    UNCHANGED <<apiKey, fn, pc, resp, reader, pos, pending, dec, failOn, fetches,
                reads, cancels, finalDrain, status, result, error, decoded>>

\* reader.read() of the call i resolves with its next chunk: lines 188-192.
ParReadChunk(i) ==
    /\ par[i].pc = "read"
    /\ par[i].pos < Len(par[i].body.bytes)
    /\ LET e == NextEnd(par[i].body, par[i].pos)
           chunk == Utf8Decode(par[DecoderOf(i)].pending,
                               SubSeq(par[i].body.bytes, par[i].pos + 1, e))
           d == ProcessLines([ParDec(i) EXCEPT !.buffer = @ \o chunk.text], Undefined)
       IN  par' = ParStore(i, [par[i] EXCEPT !.pos = e], d, chunk.pending)
    /\ ParUnchanged

\* reader.read() of the call i resolves with done: lines 189 and 195-204.
ParReadDone(i) ==
    /\ par[i].pc = "read"
    /\ par[i].pos = Len(par[i].body.bytes)
    /\ LET d == FinalDrain(ParDec(i), Undefined)
       IN  par' = ParStore(i, [par[i] EXCEPT !.pc = "done",
                                             !.status = "returned",
                                             !.result = JStr(d.fullText),
                                             !.cancels = Finally(@)],
                           d, par[DecoderOf(i)].pending)
    /\ ParUnchanged

\* reader.read() of the call i rejects: lines 200-209.
ParReadFails(i) ==
    /\ par[i].pc = "read"
    /\ par' = [par EXCEPT ![i].pc = "done",
                          ![i].status = ReadFailsOutcome(ParDec(i)).status,
                          ![i].result = ReadFailsOutcome(ParDec(i)).result,
                          ![i].error = ReadFailsOutcome(ParDec(i)).error,
                          ![i].cancels = ReadFailsCancels(@)]
    /\ ParUnchanged

NextPar ==
    \E i \in ParCalls :
        \/ ParReadChunk(i)
        \/ ParReadDone(i)
        \/ ParReadFails(i)

SpecPar == InitPar /\ [][NextPar]_vars

----------------------------------------------------------------------------
(* Properties                                                              *)

Streaming == fn = "sendStreamingChatRequest"

\* the string the arguments of onChunk concatenate to
ChunksText(calls) == Flatten([i \in 1..Len(calls) |-> ToStr(calls[i])])

\* String.prototype.includes
Contains(s, sub) ==
    \E i \in 1..(Len(s) - Len(sub) + 1) : SubSeq(s, i, i + Len(sub) - 1) = sub

\* the text after the last newline of the buffer
LastLine(buffer) ==
    LET nls == { i \in 1..Len(buffer) : buffer[i] = NL }
    IN  IF nls = {} THEN buffer
        ELSE SubSeq(buffer, (CHOOSE i \in nls : \A j \in nls : j <= i) + 1, Len(buffer))

\* the delta frames of the streamed bodies with the delta each carries
DeltaFrames == {<<LineA, JStr(DeltaA)>>, <<LineB, JStr(DeltaB)>>}

\* C1: when the stream ends without a read error, the returned string is the
\* concatenation, in invocation order, of the arguments onChunk was called
\* with.
C1_ReturnedTextIsChunksInOrder ==
    (Streaming /\ status = "returned") => result = JStr(ChunksText(dec.calls))

\* C2: once a [DONE] line has been drained, onChunk is not invoked again and
\* the accumulated text does not grow (stated for the callback that never
\* throws).
C2_NoChunkAfterSentinel ==
    [][(dec.sawDone /\ failOn = Undefined)
         => (dec'.calls = dec.calls /\ dec'.fullText = dec.fullText)]_vars

\* C3: draining [DONE] is terminal: the call has returned the accumulated
\* text as soon as the sentinel is drained, and after it there is no further
\* reader.read() and no final drain.
C3_SentinelIsTerminal ==
    [][ /\ dec'.sawDone => (status' = "returned" /\ result' = JStr(dec'.fullText))
        /\ dec.sawDone => (reads' = reads /\ finalDrain' = finalDrain) ]_vars

\* C4: reader.cancel() is called exactly once by the time a call that
\* acquired the reader returns or throws, not before, and never in a call
\* that did not acquire the reader.
C4_ReaderCancelledExactlyOnce ==
    /\ ~reader => cancels = 0
    /\ (reader /\ pc = "read") => cancels = 0
    /\ (reader /\ pc = "done") => cancels = 1

C4_Witness ==
    reader /\ pc = "done" /\ status = "thrown" /\ dec.calls # <<>> /\ cancels = 1

\* the bodies of a delta frame, a frame that is not JSON and a delta frame
MalformedBetween ==
    [x \in DeltaFrames, y \in DeltaFrames, tm \in BOOLEAN |->
        Body(<<x[1], LineBad, y[1]>>, tm)]

\* C5: for a body of a delta frame, a frame that is not JSON and a delta
\* frame, read to its end, the call returns, onChunk has received the two
\* deltas in order and nothing else, and the returned text has no trace of
\* the malformed frame; handling the malformed payload leaves the decoder
\* state as it was.
C5_MalformedFrameIsSkipped ==
    /\ \A x \in DeltaFrames, y \in DeltaFrames, tm \in BOOLEAN :
         ( /\ pc = "done"
           /\ reader
           /\ resp.body = MalformedBetween[x, y, tm]
           /\ error # ReadError )
         => /\ status = "returned"
            /\ dec.calls = <<x[2], y[2]>>
            /\ failOn = Undefined => result = JStr(x[2].s \o y[2].s)
    /\ (reader /\ pc = "read")
         => HandleData(dec, SliceFrom(LineBad, 6), failOn) = dec

C5_Witness ==
    /\ pc = "done"
    /\ resp.body = MalformedBetween[<<LineA, JStr(DeltaA)>>, <<LineB, JStr(DeltaB)>>, TRUE]
    /\ status = "returned"
    /\ dec.calls = <<JStr(DeltaA), JStr(DeltaB)>>
    /\ result = JStr(DeltaA \o DeltaB)

\* C6: when the source signals its end while the buffer holds a delta frame
\* without its newline, the delta is passed to onChunk and is the end of the
\* returned text (stated for the callback that never throws).
C6_UnterminatedFinalFrameDelivered ==
    [][ \A x \in DeltaFrames :
          ( /\ pc = "read"
            /\ failOn = Undefined
            /\ status' = "returned"
            /\ Trim(LastLine(dec.buffer)) = SubSeq(x[1], 1, 6) \o Utf8Decode(<<>>, SliceFrom(x[1], 6)).text )
          => /\ dec'.calls = Append(dec.calls, x[2])
             /\ result' = JStr(dec.fullText \o x[2].s) ]_vars

InvalidKeyBody ==
    Resolves(JObj(<< <<ErrorKey, JObj(<< <<MessageKey, JStr(InvalidKey)>> >>)>> >>))

\* C7: for a non-2xx response whose body is {"error":{"message":"invalid
\* key"}}, sendChatRequest and sendStreamingChatRequest throw an error whose
\* message contains "invalid key".
C7_ApiMessageInError ==
    ( /\ fn \in {"sendChatRequest", "sendStreamingChatRequest"}
      /\ pc = "done"
      /\ resp \in ErrorResponses
      /\ resp.json = InvalidKeyBody )
    => (status = "thrown" /\ Contains(error.msg, InvalidKey))

\* C8: for a non-2xx response whose body is not JSON, sendChatRequest and
\* sendStreamingChatRequest throw an Error built from the status text, not
\* the exception of the body parsing.
C8_StatusLineFallback ==
    ( /\ fn \in {"sendChatRequest", "sendStreamingChatRequest"}
      /\ pc = "done"
      /\ resp \in ErrorResponses
      /\ ~resp.json.ok )
    => /\ status = "thrown"
       /\ error.type = "Error"
       /\ StartsWith(error.msg, RequestFailedMsg)
       /\ Contains(error.msg, resp.statusText)

\* C9: without an API key a call throws the configuration error and fetch is
\* never called; with a key every call calls fetch exactly once.
C9_KeyCheckedBeforeTheOneFetch ==
    /\ apiKey = <<>> => fetches = 0
    /\ (apiKey = <<>> /\ fn \in {"sendChatRequest", "sendStreamingChatRequest"})
         => (pc = "done" /\ status = "thrown" /\ error = Err("Error", MissingKeyMsg))
    /\ (apiKey # <<>> /\ fn # "none") => fetches = 1

C9_Witness ==
    /\ apiKey = <<>>
    /\ fn = "sendStreamingChatRequest"
    /\ status = "thrown"
    /\ fetches = 0

\* the 2xx bodies on which sendChatRequest throws: not JSON, null, no
\* choices member, a first choice without message
FailingReplyBodies ==
    { Rejects, Resolves(JNull), Resolves(JObj(<<>>)), Completion(JArr(<<JObj(<<>>)>>)) }

\* the request of the call has failed: no key, fetch rejected, a non-2xx
\* status, or a 2xx body that is not JSON or not of the expected shape
RequestFailed ==
    /\ pc = "done"
    /\ \/ apiKey = <<>>
       \/ resp = NoResponse
       \/ resp \in ErrorResponses
       \/ resp.json \in FailingReplyBodies

\* C10: generateSuggestions never throws, and returns the one-element
\* placeholder list whenever its request failed.
C10_SuggestionsNeverThrow ==
    fn = "generateSuggestions"
    => /\ status # "thrown"
       /\ RequestFailed => (status = "returned" /\ result = JList(<<PlaceholderMsg>>))

C10_Witness ==
    /\ fn = "generateSuggestions"
    /\ pc = "done"
    /\ resp \in ErrorResponses
    /\ result = JList(<<PlaceholderMsg>>)

\* C11: a call that ends before the body was read to its end (reader.read()
\* rejected mid-stream) has released the reader and throws the read error; it
\* returns no text and the step invokes no callback, whatever was delivered
\* before.
C11_ReadErrorPropagates ==
    [][(pc = "read" /\ pc' = "done" /\ pos < Len(resp.body.bytes))
         => /\ status' = "thrown"
            /\ error' = ReadError
            /\ result' = Undefined
            /\ cancels' = cancels + 1
            /\ dec' = dec ]_vars

C11_Witness ==
    /\ Streaming
    /\ status = "thrown"
    /\ error = ReadError
    /\ dec.fullText # <<>>
    /\ pos < Len(resp.body.bytes)
    /\ cancels = 1

RECURSIVE SoloRun(_, _, _, _, _)
\* a call that runs alone on the body b: its decoder
\* state d and the bytes p held back at the offset at, read on to upto
SoloRun(b, at, p, d, upto) ==
    IF at >= upto THEN d
    ELSE LET e == NextEnd(b, at)
             chunk == Utf8Decode(p, SubSeq(b.bytes, at + 1, e))
         IN  SoloRun(b, e, chunk.pending,
                     ProcessLines([d EXCEPT !.buffer = @ \o chunk.text], Undefined),
                     upto)

\* C12: under every interleaving of the chunks of two concurrent calls, the
\* arguments each call has passed to onChunk, and the text it returns, are
\* those of the call running alone on its own chunks.
C12_ConcurrentCallsIndependent ==
    \A i \in DOMAIN par :
        LET solo == SoloRun(par[i].body, 0, <<>>, InitDec, par[i].pos)
        IN  /\ par[i].status # "returned" => par[i].dec.calls = solo.calls
            /\ par[i].status = "returned"
                 => /\ par[i].dec.calls = FinalDrain(solo, Undefined).calls
                    /\ par[i].result = JStr(FinalDrain(solo, Undefined).fullText)

\* both calls are in the middle of a frame and one has delivered a delta
C12_Witness ==
    /\ DOMAIN par = ParCalls
    /\ par[1].pc = "read" /\ par[2].pc = "read"
    /\ par[1].dec.buffer # <<>> /\ par[2].dec.buffer # <<>>
    /\ par[1].pos > 0 /\ par[2].pos > 0
    /\ par[1].body # par[2].body

\* the 2xx body whose first choice has the text c as its message content
TextReply(c) == Completion(JArr(<<Choice(JObj(<< <<ContentKey, JStr(c)>> >>))>>))

TextReplyBodies == { TextReply(c) : c \in ReplyTexts }

\* the message content of a body of TextReplyBodies
ReplyText(j) == Prop(Prop(First(Prop(j.v, ChoicesKey)), MessageKey), ContentKey).s

\* what the claim promises for the reply made of the lines ls: each line
\* without its surrounding whitespace, the empty ones left out, the first five
ExpectedSuggestions(ls) ==
    LET bare == [i \in 1..Len(ls) |-> SelectSeq(ls[i], LAMBDA c : c \notin WhiteSpace)]
        kept == SelectSeq(bare, LAMBDA l : l # <<>>)
    IN  [i \in 1..(IF Len(kept) < MaxSuggestions THEN Len(kept) ELSE MaxSuggestions)
           |-> kept[i]]

\* every reply text with the suggestions promised for it
SuggestionPairs ==
    { <<JoinLines(ls), ExpectedSuggestions(ls)>> :
        ls \in UNION { [1..n -> ReplyLines] : n \in 1..MaxReplyLines } \cup {BlankBetween} }

\* C13: for a 2xx response with a text, generateSuggestions returns the lines
\* of the text in order, trimmed, without the empty ones, cut to the first
\* five: never more than five elements, never an empty string.
C13_SuggestionsTrimmedFirstFive ==
    (fn = "generateSuggestions" /\ pc = "done" /\ resp.ok /\ resp.json \in TextReplyBodies)
    => /\ status = "returned"
       /\ result.t = "list"
       /\ <<ReplyText(resp.json), result.l>> \in SuggestionPairs
       /\ Len(result.l) <= MaxSuggestions
       /\ \A i \in 1..Len(result.l) : result.l[i] # <<>>

\* six lines with text, the first with surrounding whitespace: five are kept
C13_Witness ==
    /\ fn = "generateSuggestions"
    /\ pc = "done"
    /\ resp.ok
    /\ resp.json = TextReply(JoinLines(<< <<" ", "y", "\t">>, <<"x">>, <<"x">>, <<"x">>,
                                          <<"x">>, <<"x">> >>))
    /\ result = JList(<< <<"y">>, <<"x">>, <<"x">>, <<"x">>, <<"x">> >>)

\* C14: for a 2xx response, sendChatRequest returns the message content of
\* the first choice, and returns the empty string, throwing nothing, when the
\* list of choices is empty.
C14_FirstChoiceContentOrEmpty ==
    (fn = "sendChatRequest" /\ pc = "done" /\ resp.ok)
    => /\ resp.json \in TextReplyBodies
         => (status = "returned" /\ result = JStr(ReplyText(resp.json)))
       /\ resp.json = Completion(JArr(<<>>))
         => (status = "returned" /\ result = JStr(<<>>) /\ error = NoError)

C14_Witness ==
    /\ fn = "sendChatRequest"
    /\ pc = "done"
    /\ resp.ok
    /\ resp.json = Completion(JArr(<<>>))
    /\ status = "returned"
    /\ result = JStr(<<>>)

\* C18: a 2xx streaming response without a readable body makes the call throw
\* the stream-unavailable error at once: no read, no callback, no text.
C18_UnreadableBodyFailsAtOnce ==
    (Streaming /\ resp.ok /\ ~resp.readable)
    => /\ pc = "done"
       /\ status = "thrown"
       /\ error = Err("Error", UnreadableMsg)
       /\ result = Undefined
       /\ reads = 0
       /\ dec.calls = <<>>
       /\ ~reader

C18_Witness ==
    /\ Streaming
    /\ resp.ok
    /\ ~resp.readable
    /\ fetches = 1
    /\ status = "thrown"
    /\ error = Err("Error", UnreadableMsg)

\* a delta frame followed by a second one
BodyAB == Body(<<LineA, LineB>>, TRUE)

\* C19: an exception of onChunk does not leave the call: the call still ends
\* by returning (or by the error of a failed read), the lines after the frame
\* are decoded, and the returned text is the deltas passed to onChunk without
\* those on which it threw.
C19_CallbackErrorSwallowed ==
    (Streaming /\ failOn # Undefined /\ reader /\ pc = "done")
    => /\ status = "thrown" => error = ReadError
       /\ status = "returned"
            => /\ result = JStr(ChunksText(SelectSeq(dec.calls, LAMBDA c : c # failOn)))
               /\ resp.body = BodyAB => dec.calls = <<JStr(DeltaA), JStr(DeltaB)>>

C19_Witness ==
    /\ Streaming
    /\ failOn = JStr(DeltaA)
    /\ resp.body = BodyAB
    /\ status = "returned"
    /\ dec.calls = <<JStr(DeltaA), JStr(DeltaB)>>
    /\ result = JStr(DeltaB)

\* the deltas the claim promises for the lines ls: one per line that is a
\* delta frame, in order, nothing for any other line
ExpectedCalls(ls) ==
    LET frames == SelectSeq(ls, LAMBDA l : l \in {LineA, LineB})
    IN  [i \in 1..Len(frames) |-> IF frames[i] = LineA THEN JStr(DeltaA) ELSE JStr(DeltaB)]

\* every body without sentinel and without a frame that is not JSON, with
\* the deltas promised for it
ExpectedCallsOfBody ==
    { <<Body(ls, tm), ExpectedCalls(ls)>> :
        ls \in UNION { [1..n -> LineKinds \ {LineDone, LineBad}] : n \in 0..MaxLines }
               \cup UNION { [1..n -> MixedLineKinds \ {LineDone, LineBad}] :
                              n \in 0..MaxMixedLines }
               \cup OddBetween,
        tm \in BOOLEAN }

SentinelFree == { p[1] : p \in ExpectedCallsOfBody } \cap Streams

\* C17: for a body without sentinel read to its end, onChunk has been called
\* once, in order, with the delta of each data line whose JSON has a non-empty
\* choices[0].delta.content, and not for the empty lines, the lines without
\* the prefix and the frames whose content is absent or empty or whose shape
\* lacks choices, delta or content; none of these lines makes the call throw
\* or changes the text.
C17_OneCallPerDeltaLine ==
    (Streaming /\ reader /\ pc = "done" /\ resp.body \in SentinelFree /\ error # ReadError)
    => /\ status = "returned"
       /\ <<resp.body, dec.calls>> \in ExpectedCallsOfBody
       /\ failOn = Undefined => result = JStr(ChunksText(dec.calls))

C17_Witness ==
    /\ Streaming
    /\ pc = "done"
    /\ resp.body = Body(<<LineA, LineEmptyContent, LineB>>, TRUE)
    /\ failOn = Undefined
    /\ status = "returned"
    /\ dec.calls = <<JStr(DeltaA), JStr(DeltaB)>>
    /\ result = JStr(DeltaA \o DeltaB)

\* the body of the one delta frame whose delta is a three-byte character
BodyB == Body(<<LineB>>, TRUE)

\* for every body b and every offset e a chunk may end at, the first e bytes
\* of b decoded as one piece
DecodedAsOnePiece ==
    { <<p[1], p[2], Utf8Decode(<<>>, SubSeq(p[2].bytes, 1, p[1]))>> :
        p \in UNION { { <<e, b>> : e \in b.ends \cup {0} } : b \in Streams } }

\* C20: whatever the chunks, the text appended to the buffer over the reads
\* so far is the decoding of the bytes read so far taken as one piece, with
\* the bytes of an incomplete character held back: a character cut by a chunk
\* boundary is decoded once and intact, and its delta reaches onChunk as it
\* was sent.
C20_SplitCharacterDecodedOnce ==
    (Streaming /\ reader)
    => /\ <<pos, resp.body, [text |-> decoded, pending |-> pending]>> \in DecodedAsOnePiece
       /\ (resp.body = BodyB /\ status = "returned") => dec.calls = <<JStr(DeltaB)>>

\* the body was read in as many chunks as it can be cut in, one of them
\* ending inside the character
C20_Witness ==
    /\ Streaming
    /\ resp.body = BodyB
    /\ status = "returned"
    /\ reads = Cardinality(resp.body.ends) + 1
    /\ \E t \in DecodedAsOnePiece : t[2] = resp.body /\ t[3].pending # <<>>
    /\ dec.calls = <<JStr(DeltaB)>>
    /\ result = JStr(DeltaB)

\* C15: between two passes of processLines the buffer contains no newline:
\* it holds at most one frame that is not terminated yet.
C15_NoNewlineBetweenPasses ==
    (Streaming /\ reader /\ pc = "read" /\ reads > 0)
    => ~Contains(dec.buffer, NL)

\* the call that reads each body as one chunk, for each callback
OneChunkRun ==
    [b \in Streams, cb \in Callbacks |->
        FinalDrain(ProcessLines([InitDec EXCEPT
                                   !.buffer = Utf8Decode(<<>>, b.bytes).text], cb),
                   cb)]

\* C16: the deltas passed to onChunk and the returned text depend on the text
\* of the stream only: however the body was cut in chunks, they are those of
\* the call that reads the body as one chunk.
C16_ChunkBoundariesDoNotMatter ==
    (Streaming /\ reader /\ status = "returned")
    => /\ dec.calls = OneChunkRun[resp.body, failOn].calls
       /\ result = JStr(OneChunkRun[resp.body, failOn].fullText)

====
